---- MODULE Spec2Model ----
(***************************************************************************)
(* Model of the linker-set crate: the attribute macro set_entry, the       *)
(* declarative macros set_declare! and set!, the proxy object LinkerSet    *)
(* and the iterator LinkerSetIter.                                         *)
(*                                                                         *)
(* Pointers are byte addresses (integers); a reference &'static T is the   *)
(* address of the element it refers to.  A function that can panic returns *)
(* Ok(v) or Panicked.                                                      *)
(***************************************************************************)
EXTENDS Integers, Sequences, FiniteSets, TLC

VARIABLES symtab, memory, handle, iters, hist, last

vars == <<symtab, memory, handle, iters, hist, last>>

(***************************************************************************)
(* Bounds of the model.                                                    *)
(***************************************************************************)
\* most entries tagged for the set "stuff"
MaxStuff == 3
\* calls of next that are followed after the first None
MaxFusedPulls == 1

(***************************************************************************)
(* Values                                                                  *)
(***************************************************************************)
None == [tag |-> "None"]
Some(v) == [tag |-> "Some", val |-> v]

Panicked == [panic |-> TRUE]
Ok(v) == [panic |-> FALSE, val |-> v]

\* the linker sets declared by set_declare! in the crate's tests
Sets == {"stuff", "aaa"}

\* set_declare!(stuff, u64); set_declare!(aaa, Foo)
TypeOf(set) == IF set = "stuff" THEN "u64" ELSE "Foo"

\* size_of::<u64>() and size_of::<Foo>() (Foo { a: u32, b: u8 })
size_of(ty) == IF ty = "u64" THEN 8 ELSE 4 + 4

\* the entries tagged for the set "aaa" in the crate's tests: AAA
NumAaa == 1

\* the modules of the crate's tests that contribute entries
Modules == <<"test", "test_use_ext">>

MaxOf(set) == IF set = "stuff" THEN MaxStuff ELSE NumAaa

IterIds == {"i1", "i2"}

(***************************************************************************)
(* Raw pointer operations of core::ptr used by the crate                   *)
(***************************************************************************)
\* <*const T>::add(count)
ptr_add(p, count, ty) == p + count * size_of(ty)

\* <*const T>::offset_from(origin): the distance in elements.  Every pair
\* of pointers the model hands to it lies on element boundaries of one
\* section, which is the function's safety precondition.
offset_from(p, origin, ty) == (p - origin) \div size_of(ty)

\* <*const T>::as_ref(): None for the null pointer
as_ref(p) == IF p = 0 THEN None ELSE Some(p)

\* isize -> usize, .try_into().unwrap()
try_into_unwrap(n) == IF n >= 0 THEN Ok(n) ELSE Panicked

\* std::slice::from_raw_parts
from_raw_parts(p, len) == [ptr |-> p, len |-> len]

\* <[T]>::index(i) for i: usize, bounds-checked
slice_index(s, i, ty) ==
    IF i < s.len THEN Ok(ptr_add(s.ptr, i, ty)) ELSE Panicked

(***************************************************************************)
(* LinkerSetIter                                                           *)
(***************************************************************************)
\* variant: the assertion written start <= stop
LinkerSetIter_new_le(ty, start, stop) ==
    IF start <= stop
    THEN Ok([ty |-> ty, next |-> start, stop |-> stop])
    ELSE Panicked

LinkerSetIter_new(ty, start, stop) ==
    IF start < stop
    THEN Ok([ty |-> ty, next |-> start, stop |-> stop])
    ELSE Panicked

\* variant: the end test written next > stop
LinkerSetIter_next_gt(self) ==
    IF self.next > self.stop
    THEN [ret |-> None, self |-> self]
    ELSE [ret |-> as_ref(self.next),
          self |-> [self EXCEPT !.next = ptr_add(self.next, 1, self.ty)]]

\* variant: the cursor advanced by size_of::<T>() elements instead of one
LinkerSetIter_next_bytes(self) ==
    IF self.next = self.stop
    THEN [ret |-> None, self |-> self]
    ELSE [ret |-> as_ref(self.next),
          self |-> [self EXCEPT !.next =
                       ptr_add(self.next, size_of(self.ty), self.ty)]]

LinkerSetIter_next(self) ==
    IF self.next = self.stop
    THEN [ret |-> None, self |-> self]
    ELSE [ret |-> as_ref(self.next),
          self |-> [self EXCEPT !.next = ptr_add(self.next, 1, self.ty)]]

\* variant: the distance taken in bytes
LinkerSetIter_len_bytes(self) == try_into_unwrap(self.stop - self.next)

LinkerSetIter_len(self) ==
    try_into_unwrap(offset_from(self.stop, self.next, self.ty))

LinkerSetIter_count(self) == LinkerSetIter_len(self)

\* variant: the default Iterator::size_hint
LinkerSetIter_size_hint_default(self) == Ok(<<0, None>>)

LinkerSetIter_size_hint(self) ==
    LET len == LinkerSetIter_len(self)
    IN  IF len.panic THEN Panicked ELSE Ok(<<len.val, Some(len.val)>>)

(***************************************************************************)
(* LinkerSet                                                               *)
(***************************************************************************)
LinkerSet_new(ty, start, stop) ==
    IF ~(start < stop)
    THEN Panicked
    ELSE LET len == try_into_unwrap(offset_from(stop, start, ty))
         IN  IF len.panic
             THEN Panicked
             ELSE Ok([ty |-> ty, start |-> start, stop |-> stop,
                      slice |-> from_raw_parts(start, len.val)])

\* variant: the boundaries passed in the wrong order
LinkerSet_iter_swapped(self) ==
    LinkerSetIter_new(self.ty, self.stop, self.start)

LinkerSet_iter(self) == LinkerSetIter_new(self.ty, self.start, self.stop)

LinkerSet_len(self) == self.slice.len

\* variant: the comparison inverted
LinkerSet_is_empty_ne(self) == self.start # self.stop

LinkerSet_is_empty(self) == self.start = self.stop

LinkerSet_into_iter(self) == LinkerSet_iter(self)

\* variant: indexing from the start pointer without the bounds check
LinkerSet_index_unchecked(self, i) == Ok(ptr_add(self.start, i, self.ty))

LinkerSet_index(self, i) == slice_index(self.slice, i, self.ty)

(***************************************************************************)
(* Registration: set_entry, set_declare!, set!                             *)
(***************************************************************************)
\* variant: the section name without the name of the set
set_section_fixed(set) == "set_" \o "stuff"

\* set_entry: let set_section = format!("set_{set}")
set_section(set) == "set_" \o set

\* set_declare! / set!: [<__start_set_ $set>] and [<__stop_set_ $set>]
start_set(set) == "__start_set_" \o set
stop_set(set) == "__stop_set_" \o set

\* #[set_entry(set)] static IDENT: T = ...; in module `module`:
\* the static item, with #[link_section = set_section] and #[used]
set_entry(set, ident, module) ==
    [link_section |-> set_section(set),
     item |-> [set |-> set, ident |-> ident, module |-> module,
               ty |-> TypeOf(set)]]

(***************************************************************************)
(* The linker                                                              *)
(***************************************************************************)
\* the orders in which the elements of S can be placed
Perms(S) ==
    {f \in [1..Cardinality(S) -> S] :
        \A i, j \in 1..Cardinality(S) : f[i] = f[j] => i = j}

\* the statics of an object set that go to section sec
InSection(objs, sec) == {o \in objs : o.link_section = sec}

\* the output sections of an image, in their order in the image
SectionOrder(img) == CHOOSE s \in Perms(DOMAIN img) : TRUE

RECURSIVE SeqBytes(_)
SeqBytes(s) ==
    IF s = <<>> THEN 0 ELSE size_of(Head(s).item.ty) + SeqBytes(Tail(s))

\* the first address of the image: not null, aligned for every type
ImageBase == size_of("u64")

RECURSIVE AddrOfSection(_, _)
AddrOfSection(img, k) ==
    IF k = 1
    THEN ImageBase
    ELSE AddrOfSection(img, k - 1) + SeqBytes(img[SectionOrder(img)[k - 1]])

SectionAddr(img, sec) ==
    AddrOfSection(img, CHOOSE k \in 1..Len(SectionOrder(img)) :
                          SectionOrder(img)[k] = sec)

\* the symbols the linker synthesizes for a section whose name is a C
\* identifier
ld_start(sec) == "__start_" \o sec
ld_stop(sec) == "__stop_" \o sec

\* the symbol table of an image
SymtabOf(img) ==
    [sym \in {ld_start(sec) : sec \in DOMAIN img} \cup
             {ld_stop(sec) : sec \in DOMAIN img} |->
        LET sec == CHOOSE x \in DOMAIN img : sym \in {ld_start(x), ld_stop(x)}
        IN  IF sym = ld_start(sec)
            THEN SectionAddr(img, sec)
            ELSE SectionAddr(img, sec) + SeqBytes(img[sec])]

\* the statics of an image by address
MemoryOf(img) ==
    LET at == UNION {{[sec |-> x, k |-> k] : k \in 1..Len(img[x])}
                       : x \in DOMAIN img}
        addr(c) == SectionAddr(img, c.sec)
                     + SeqBytes(SubSeq(img[c.sec], 1, c.k - 1))
    IN  [a \in {addr(c) : c \in at} |->
            LET c == CHOOSE x \in at : addr(x) = a IN img[c.sec][c.k]]

Symbols == DOMAIN symtab

SymbolAddr(sym) == symtab[sym]

\* the static a reference refers to
Deref(a) == memory[a].item

\* every static that was linked in
AllPlaced == {memory[a].item : a \in DOMAIN memory}

\* the statics tagged #[set_entry(set)] that were linked in
EntriesOf(set) == {e \in AllPlaced : e.set = set}

\* the object files: entries 1..n of "stuff" and the entries of "aaa",
\* contributed by the modules in turn
Objects(n) ==
    {set_entry("stuff", k, Modules[((k - 1) % Len(Modules)) + 1]) : k \in 1..n}
      \cup {set_entry("aaa", k, Modules[1]) : k \in 1..NumAaa}

\* the images the linker may produce: one output section per section name,
\* holding the statics of that name contiguously, in any order
Link(objs) ==
    LET secs == {o.link_section : o \in objs}
    IN  {f \in [secs -> UNION {Perms(InSection(objs, s)) : s \in secs}] :
            \A s \in secs : f[s] \in Perms(InSection(objs, s))}

(***************************************************************************)
(* State                                                                   *)
(***************************************************************************)
NoHist == [of |-> "none", start |-> 0, len0 |-> 0, yielded |-> <<>>,
           nones |-> 0]

\* the history of an iterator just made from the range of `set`
NewHist(set, it) ==
    [of |-> set, start |-> it.next, len0 |-> LinkerSetIter_len(it).val,
     yielded |-> <<>>, nones |-> 0]

Init ==
    /\ \E n \in 1..MaxStuff : \E img \in Link(Objects(n)) :
          /\ symtab = SymtabOf(img)
          /\ memory = MemoryOf(img)
    /\ handle = [set \in Sets |-> None]
    /\ iters = [i \in IterIds |-> None]
    /\ hist = [i \in IterIds |-> NoHist]
    /\ last = [op |-> "link"]

\* the two boundary addresses of a set, in every combination
Boundaries(set) ==
    {SymbolAddr(start_set(set)), SymbolAddr(stop_set(set))}

Linked(set) == {start_set(set), stop_set(set)} \subseteq Symbols

(***************************************************************************)
(* Operations on a linker set                                              *)
(***************************************************************************)
\* let set = set!(name);
SetMacro(set) ==
    /\ Linked(set)
    /\ handle[set] = None
    /\ LET start == SymbolAddr(start_set(set))
           stop  == SymbolAddr(stop_set(set))
           r     == LinkerSet_new(TypeOf(set), start, stop)
       IN  /\ handle' = [handle EXCEPT ![set] =
                            IF r.panic THEN None ELSE Some(r.val)]
           /\ last' = [op |-> "set!", set |-> set, start |-> start,
                       stop |-> stop, res |-> r]
    /\ UNCHANGED <<symtab, memory, iters, hist>>

\* let set = unsafe { LinkerSet::new(start, stop) };
New(set, start, stop) ==
    /\ Linked(set)
    /\ handle[set] = None
    /\ LET r == LinkerSet_new(TypeOf(set), start, stop)
       IN  /\ handle' = [handle EXCEPT ![set] =
                            IF r.panic THEN None ELSE Some(r.val)]
           /\ last' = [op |-> "LinkerSet::new", set |-> set, start |-> start,
                       stop |-> stop, res |-> r]
    /\ UNCHANGED <<symtab, memory, iters, hist>>

\* drop(set)
DropSet(set) ==
    /\ handle[set] # None
    /\ handle' = [handle EXCEPT ![set] = None]
    /\ last' = [op |-> "drop", set |-> set]
    /\ UNCHANGED <<symtab, memory, iters, hist>>

\* let i = set.iter();
Iter(set, i) ==
    /\ handle[set] # None
    /\ iters[i] = None
    /\ LET r == LinkerSet_iter(handle[set].val)
       IN  /\ iters' = [iters EXCEPT ![i] =
                           IF r.panic THEN None ELSE Some(r.val)]
           /\ hist' = [hist EXCEPT ![i] =
                          IF r.panic THEN NoHist ELSE NewHist(set, r.val)]
           /\ last' = [op |-> "iter", set |-> set, it |-> i, res |-> r]
    /\ UNCHANGED <<symtab, memory, handle>>

\* let i = set.into_iter();   (for x in set)
IntoIter(set, i) ==
    /\ handle[set] # None
    /\ iters[i] = None
    /\ LET r == LinkerSet_into_iter(handle[set].val)
       IN  /\ iters' = [iters EXCEPT ![i] =
                           IF r.panic THEN None ELSE Some(r.val)]
           /\ hist' = [hist EXCEPT ![i] =
                          IF r.panic THEN NoHist ELSE NewHist(set, r.val)]
           /\ last' = [op |-> "into_iter", set |-> set, it |-> i, res |-> r]
    /\ handle' = [handle EXCEPT ![set] = None]
    /\ UNCHANGED <<symtab, memory>>

\* let i = unsafe { LinkerSetIter::new(start, stop) };
IterNew(set, i, start, stop) ==
    /\ Linked(set)
    /\ iters[i] = None
    /\ LET r == LinkerSetIter_new(TypeOf(set), start, stop)
       IN  /\ iters' = [iters EXCEPT ![i] =
                           IF r.panic THEN None ELSE Some(r.val)]
           /\ hist' = [hist EXCEPT ![i] =
                          IF r.panic THEN NoHist ELSE NewHist(set, r.val)]
           /\ last' = [op |-> "LinkerSetIter::new", set |-> set, it |-> i,
                       start |-> start, stop |-> stop, res |-> r]
    /\ UNCHANGED <<symtab, memory, handle>>

\* i.next()
Next_(i) ==
    /\ iters[i] # None
    /\ hist[i].nones <= MaxFusedPulls
    /\ LET r == LinkerSetIter_next(iters[i].val)
       IN  /\ iters' = [iters EXCEPT ![i] = Some(r.self)]
           /\ hist' = [hist EXCEPT ![i] =
                          IF r.ret = None
                          THEN [@ EXCEPT !.nones = @ + 1]
                          ELSE [@ EXCEPT !.yielded = Append(@, r.ret.val)]]
           /\ last' = [op |-> "next", it |-> i, res |-> r.ret]
    /\ UNCHANGED <<symtab, memory, handle>>

\* i.len()
Len_(i) ==
    /\ iters[i] # None
    /\ last' = [op |-> "len", it |-> i, self |-> iters[i].val,
                res |-> LinkerSetIter_len(iters[i].val)]
    /\ UNCHANGED <<symtab, memory, handle, iters, hist>>

\* i.size_hint()
SizeHint(i) ==
    /\ iters[i] # None
    /\ last' = [op |-> "size_hint", it |-> i, self |-> iters[i].val,
                res |-> LinkerSetIter_size_hint(iters[i].val)]
    /\ UNCHANGED <<symtab, memory, handle, iters, hist>>

\* i.count(): takes the iterator by value
Count(i) ==
    /\ iters[i] # None
    /\ last' = [op |-> "count", it |-> i, was |-> hist[i],
                res |-> LinkerSetIter_count(iters[i].val)]
    /\ iters' = [iters EXCEPT ![i] = None]
    /\ hist' = [hist EXCEPT ![i] = NoHist]
    /\ UNCHANGED <<symtab, memory, handle>>

\* set.len()
SetLen(set) ==
    /\ handle[set] # None
    /\ last' = [op |-> "set.len", set |-> set,
                res |-> LinkerSet_len(handle[set].val)]
    /\ UNCHANGED <<symtab, memory, handle, iters, hist>>

\* set.is_empty()
IsEmpty(set) ==
    /\ handle[set] # None
    /\ last' = [op |-> "is_empty", set |-> set,
                res |-> LinkerSet_is_empty(handle[set].val)]
    /\ UNCHANGED <<symtab, memory, handle, iters, hist>>

\* set[k]
Index(set, k) ==
    /\ handle[set] # None
    /\ last' = [op |-> "index", set |-> set, i |-> k,
                res |-> LinkerSet_index(handle[set].val, k)]
    /\ UNCHANGED <<symtab, memory, handle, iters, hist>>

Next ==
    \/ \E set \in Sets : SetMacro(set)
    \/ \E set \in Sets : \E start, stop \in Boundaries(set) :
          New(set, start, stop)
    \/ \E set \in Sets : DropSet(set)
    \/ \E set \in Sets, i \in IterIds : Iter(set, i)
    \/ \E set \in Sets, i \in IterIds : IntoIter(set, i)
    \/ \E set \in Sets, i \in IterIds : \E start, stop \in Boundaries(set) :
          IterNew(set, i, start, stop)
    \/ \E i \in IterIds : Next_(i)
    \/ \E i \in IterIds : Len_(i)
    \/ \E i \in IterIds : SizeHint(i)
    \/ \E i \in IterIds : Count(i)
    \/ \E set \in Sets : SetLen(set)
    \/ \E set \in Sets : IsEmpty(set)
    \/ \E set \in Sets : \E k \in 0..(MaxOf(set) + 1) : Index(set, k)

Spec == Init /\ [][Next]_vars

(***************************************************************************)
(* Properties                                                              *)
(***************************************************************************)
Live(i) == iters[i] # None
It(i) == iters[i].val
Fresh(i) == Live(i) /\ hist[i].yielded = <<>> /\ hist[i].nones = 0
Exhausted(i) == Live(i) /\ hist[i].nones > 0
Pulled(i) == Len(hist[i].yielded)
Held(set) == handle[set] # None
NumEntries(set) == Cardinality(EntriesOf(set))

\* C1: LinkerSet::new called with start == stop does not fault, and the
\* handle it returns has len() == 0 and is_empty() == true.
C1_EmptySetAccepted ==
    (last.op = "LinkerSet::new" /\ last.start = last.stop) =>
        /\ ~last.res.panic
        /\ LinkerSet_len(last.res.val) = 0
        /\ LinkerSet_is_empty(last.res.val)

\* C2: for a set with N >= 1 entries placed in any order from any modules,
\* the handle has len() == N; a fresh iterator has len() == N,
\* size_hint() == (N, Some(N)) and count() == N; an iterator pulled to
\* exhaustion has yielded exactly the N placed entries, each once.
C2_LenIsNumberOfEntries ==
    \A set \in Sets :
        /\ NumEntries(set) >= 1
        /\ Held(set) => LinkerSet_len(handle[set].val) = NumEntries(set)
        /\ \A i \in IterIds : (Fresh(i) /\ hist[i].of = set) =>
              /\ LinkerSetIter_len(It(i)) = Ok(NumEntries(set))
              /\ LinkerSetIter_size_hint(It(i)) =
                    Ok(<<NumEntries(set), Some(NumEntries(set))>>)
              /\ LinkerSetIter_count(It(i)) = Ok(NumEntries(set))
        /\ \A i \in IterIds : (Exhausted(i) /\ hist[i].of = set) =>
              /\ Pulled(i) = NumEntries(set)
              /\ \A j \in 1..Pulled(i) : hist[i].yielded[j] \in DOMAIN memory
              /\ {Deref(hist[i].yielded[j]) : j \in 1..Pulled(i)}
                    = EntriesOf(set)

C2_Witness ==
    \E i \in IterIds :
        /\ Exhausted(i)
        /\ hist[i].of = "stuff"
        /\ Pulled(i) = MaxStuff
        /\ Held("stuff")
        /\ {Deref(hist[i].yielded[j]).module : j \in 1..Pulled(i)}
              = {Modules[1], Modules[2]}
        /\ Deref(hist[i].yielded[1]).ident # 1

\* C3: an iterator of starting length L returns an element from each of its
\* first L calls of next and None from call L+1 and from every later call,
\* and a call that returns None leaves the cursor where it was.
C3_Fused ==
    \A i \in IterIds : Live(i) =>
        /\ Pulled(i) <= hist[i].len0
        /\ hist[i].nones > 0 =>
              (Pulled(i) = hist[i].len0 /\ It(i).next = It(i).stop)
        /\ It(i).next = ptr_add(hist[i].start, Pulled(i), It(i).ty)

C3_Witness ==
    \E i \in IterIds :
        /\ Live(i)
        /\ hist[i].len0 >= 2
        /\ hist[i].nones = MaxFusedPulls + 1
        /\ last.op = "next" /\ last.it = i /\ last.res = None

\* C4: after k successful pulls of an iterator of starting length L, len()
\* is L - k and size_hint() is (L - k, Some(L - k)), the number of elements
\* still to come; len() and size_hint() leave the iterator as it was.
C4_LenIsExact ==
    /\ \A i \in IterIds : Live(i) =>
          /\ LinkerSetIter_len(It(i)) = Ok(hist[i].len0 - Pulled(i))
          /\ LinkerSetIter_size_hint(It(i)) =
                Ok(<<hist[i].len0 - Pulled(i),
                     Some(hist[i].len0 - Pulled(i))>>)
          /\ hist[i].nones > 0 => LinkerSetIter_len(It(i)) = Ok(0)
    /\ last.op = "len" =>
          /\ last.res = Ok(hist[last.it].len0 - Pulled(last.it))
          /\ iters[last.it] = Some(last.self)
    /\ last.op = "size_hint" =>
          /\ last.res = Ok(<<hist[last.it].len0 - Pulled(last.it),
                             Some(hist[last.it].len0 - Pulled(last.it))>>)
          /\ iters[last.it] = Some(last.self)

C4_Witness ==
    /\ last.op = "size_hint"
    /\ Pulled(last.it) = 1
    /\ hist[last.it].len0 = MaxStuff
    /\ last.res = Ok(<<MaxStuff - 1, Some(MaxStuff - 1)>>)

\* C5: for 0 <= i < len(), set[i] is the element that call i+1 of next
\* returns on an iterator of that set; set[i] for i >= len() faults.
C5_IndexAgreesWithIter ==
    \A set \in Sets : Held(set) =>
        LET h == handle[set].val IN
        /\ \A i \in IterIds : (Live(i) /\ hist[i].of = set) =>
              \A j \in 1..Pulled(i) :
                  (j - 1 < LinkerSet_len(h)) =>
                      LinkerSet_index(h, j - 1) = Ok(hist[i].yielded[j])
        /\ \A k \in 0..(LinkerSet_len(h) - 1) : ~LinkerSet_index(h, k).panic
        /\ \A k \in LinkerSet_len(h)..(LinkerSet_len(h) + 1) :
              LinkerSet_index(h, k).panic
        /\ (last.op = "index" /\ last.set = set) =>
              (last.res.panic <=> last.i >= LinkerSet_len(h))

C5_Witness ==
    \E i \in IterIds :
        /\ Exhausted(i)
        /\ hist[i].of = "stuff"
        /\ Pulled(i) = MaxStuff
        /\ Held("stuff")
        /\ last.op = "index" /\ last.set = "stuff"
        /\ last.i = MaxStuff - 1
        /\ last.res = Ok(hist[i].yielded[MaxStuff])

\* every iter() and into_iter() returns an iterator positioned at start,
\* whatever iterators exist; under any interleaving of pulls every iterator
\* of a set yields the same sequence, complete at exhaustion
SameSequence ==
    /\ last.op \in {"iter", "into_iter"} =>
          /\ ~last.res.panic
          /\ Fresh(last.it)
          /\ It(last.it).next = SymbolAddr(start_set(last.set))
          /\ It(last.it).stop = SymbolAddr(stop_set(last.set))
    /\ \A i \in IterIds : Live(i) =>
          /\ hist[i].start = SymbolAddr(start_set(hist[i].of))
          /\ Exhausted(i) => Pulled(i) = NumEntries(hist[i].of)
          /\ \A k \in IterIds : (Live(k) /\ hist[k].of = hist[i].of) =>
                \A j \in 1..Pulled(i) :
                    j <= Pulled(k) => hist[i].yielded[j] = hist[k].yielded[j]
    /\ \A set \in Sets : Held(set) =>
          /\ handle[set].val.start = SymbolAddr(start_set(set))
          /\ handle[set].val.stop = SymbolAddr(stop_set(set))
          /\ LinkerSet_len(handle[set].val) = NumEntries(set)

C6_Witness ==
    /\ Exhausted("i1")
    /\ hist["i1"].of = "stuff"
    /\ hist["i1"].len0 = MaxStuff
    /\ last.op = "iter" /\ last.it = "i2" /\ last.set = "stuff"
    /\ Fresh("i2")

\* a call of next changes neither a handle nor another iterator
NextFrame ==
    last'.op = "next" =>
        /\ handle' = handle
        /\ \A k \in IterIds \ {last'.it} :
              iters'[k] = iters[k] /\ hist'[k] = hist[k]

\* C6: traversals of one handle are independent and repeatable: every
\* iter() and into_iter() returns a fresh iterator positioned at start;
\* a pull changes neither the handle nor another iterator; every iterator
\* of a set yields the same complete sequence under any interleaving.
C6_IndependentTraversals == []SameSequence /\ [][NextFrame]_vars

\* C7: LinkerSetIter::new faults for every start >= stop and LinkerSet::new
\* for every start > stop; no iterator or handle exists for such a range.
C7_BadOrderFaults ==
    /\ (last.op = "LinkerSetIter::new" /\ last.start >= last.stop) =>
          (last.res.panic /\ iters[last.it] = None)
    /\ (last.op = "LinkerSet::new" /\ last.start > last.stop) =>
          (last.res.panic /\ handle[last.set] = None)
    /\ \A i \in IterIds : Live(i) => hist[i].start < It(i).stop
    /\ \A set \in Sets : Held(set) =>
          handle[set].val.start <= handle[set].val.stop

C7_Witness ==
    /\ last.op = "LinkerSetIter::new"
    /\ last.start = last.stop
    /\ last.res.panic
    /\ \E set \in Sets : Held(set)

\* C8: for every handle, is_empty() is true if and only if len() is 0.
C8_IsEmptyIffLenZero ==
    /\ \A set \in Sets : Held(set) =>
          (LinkerSet_is_empty(handle[set].val)
              <=> LinkerSet_len(handle[set].val) = 0)
    /\ last.op = "is_empty" =>
          (last.res <=> LinkerSet_len(handle[last.set].val) = 0)

C8_Witness ==
    /\ last.op = "is_empty"
    /\ Held(last.set)
    /\ last.res = FALSE

\* C9: an entry tagged set_entry(R) is placed in section "set_R"; the handle
\* of R is built from the boundary symbols of exactly that section; no
\* entry tagged for another set is yielded by, counted in or indexable
\* through the handle of R.
C9_SetsIsolated ==
    /\ \A a \in DOMAIN memory :
          memory[a].link_section = "set_" \o memory[a].item.set
    /\ \A set \in Sets : Held(set) =>
          LET h == handle[set].val IN
          /\ \A a \in DOMAIN memory :
                (h.start <= a /\ a < h.stop) <=> memory[a].item.set = set
          /\ LinkerSet_len(h) = NumEntries(set)
          /\ \A k \in 0..(LinkerSet_len(h) - 1) :
                /\ LinkerSet_index(h, k).val \in DOMAIN memory
                /\ Deref(LinkerSet_index(h, k).val).set = set
    /\ \A i \in IterIds : Live(i) =>
          \A j \in 1..Pulled(i) :
              /\ hist[i].yielded[j] \in DOMAIN memory
              /\ Deref(hist[i].yielded[j]).set = hist[i].of

C9_Witness ==
    /\ Held("stuff") /\ Held("aaa")
    /\ Exhausted("i1") /\ hist["i1"].of = "stuff"
    /\ Pulled("i1") = MaxStuff
    /\ Exhausted("i2") /\ hist["i2"].of = "aaa"
    /\ handle["aaa"].val.stop = handle["stuff"].val.start
          \/ handle["stuff"].val.stop = handle["aaa"].val.start

\* C10: the cursor of an iterator stays on an element boundary between
\* start and stop; next reads only addresses in [start, stop); the cursor
\* is at stop exactly when all L elements were pulled, never past it; the
\* conversion of stop - cursor in len() never fails.
C10_CursorInRange ==
    \A i \in IterIds : Live(i) =>
        /\ hist[i].start <= It(i).next
        /\ It(i).next <= It(i).stop
        /\ (It(i).next - hist[i].start) % size_of(It(i).ty) = 0
        /\ (It(i).stop - hist[i].start) % size_of(It(i).ty) = 0
        /\ \A j \in 1..Pulled(i) :
              /\ hist[i].start <= hist[i].yielded[j]
              /\ hist[i].yielded[j] < It(i).stop
              /\ (hist[i].yielded[j] - hist[i].start) % size_of(It(i).ty) = 0
              /\ hist[i].yielded[j] \in DOMAIN memory
        /\ It(i).next = It(i).stop <=> Pulled(i) = hist[i].len0
        /\ ~LinkerSetIter_len(It(i)).panic

C10_Witness ==
    \E i \in IterIds :
        /\ Live(i)
        /\ hist[i].len0 = MaxStuff
        /\ It(i).next = It(i).stop
        /\ last.op = "len" /\ last.it = i /\ last.res = Ok(0)

====
